---- MODULE Spec2Model ----
(***************************************************************************)
(* pyinit: the project materialization workflow of pyinit/creator.py       *)
(* (create_python_project and its helpers) together with the two front     *)
(* ends that call it (pyinit/cli.py:main, the console script, and          *)
(* pyinit/__main__.py).                                                    *)
(*                                                                         *)
(* The filesystem is a map from a fixed set of paths to the kind of entry  *)
(* found there.  External processes (python -m venv, pip, which/where,     *)
(* git) are opaque: their exit codes are drawn nondeterministically.       *)
(***************************************************************************)
EXTENDS Integers, Sequences, FiniteSets, TLC

VARIABLES
    system,           \* platform.system() at import (creator.py:13)
    entry,            \* which front end was launched: "cli" or "module"
    argv,             \* sys.argv[1:], each argument a sequence of characters
    verbose,          \* the -v/--verbose flag (cli.py only)
    project_name,     \* sequence of characters, <<>> before parsing
    no_git,           \* the -n/--no-git flag
    fs,               \* filesystem: path -> kind
    pc,               \* position of the single thread of control
    raw,              \* last line returned by input()
    data,             \* local `data` of _prompt (the stripped line)
    confirmed,        \* value returned by _prompt: "none", "True", "False"
    errs,             \* number of "Invalid input" messages printed
    python_dir_name,  \* local of _install_local_environment
    env_code,         \* exit code of the chained invocation, -1 = not run
    git_exec,         \* local of _init_git: "unset", "None", "git", "diag"
    result,           \* value create_python_project returned, or "none"
    exit_code,        \* process exit code, -1 while running
    exc,              \* exception propagating out of the workflow, or "none"
    log               \* sequence of the I/O operations performed so far

vars == << system, entry, argv, verbose, project_name, no_git, fs, pc, raw,
           data, confirmed,
           errs, python_dir_name, env_code, git_exec, result, exit_code, exc,
           log >>

---------------------------------------------------------------------------
(* Bounds *)

MaxPre == 2        \* pre-existing entries directly under ProjectPath
MaxInvalid == 2    \* invalid answers the console gives before giving up
MaxRespLen == 2    \* characters in one console response
MaxNameLen == 3    \* characters in a project name (name derivation spec)
MaxArgs == 3       \* command-line arguments (argument parsing spec)

---------------------------------------------------------------------------
(* Characters and strings (sequences of one-character strings) *)

Space == " "

\* Characters a console response is built from.
RespChars == {"y", "Y", "n", "N", "x", Space}

\* Characters a project name is built from: ASCII letter, ASCII digit,
\* underscore, ASCII punctuation, whitespace, a non-ASCII letter.
NameChars == {"a", "9", "_", "-", Space, "é"}

RECURSIVE SeqsUpTo(_, _)
SeqsUpTo(S, n) ==
    IF n = 0 THEN {<<>>}
    ELSE LET shorter == SeqsUpTo(S, n - 1)
         IN  shorter \cup { Append(s, c) : s \in shorter, c \in S }

Responses == SeqsUpTo(RespChars, MaxRespLen)

AllNames == SeqsUpTo(NameChars, MaxNameLen) \ {<<>>}

\* Names the front ends are given in the workflow specification.
ArgNames == { <<"a">>, <<"a", "-", Space, "é">> }

\* str.strip(): drop leading and trailing whitespace.
RECURSIVE LStrip(_)
LStrip(s) == IF s # <<>> /\ Head(s) = Space THEN LStrip(Tail(s)) ELSE s

RECURSIVE RStrip(_)
RStrip(s) ==
    IF s # <<>> /\ s[Len(s)] = Space THEN RStrip(SubSeq(s, 1, Len(s) - 1))
    ELSE s

Strip(s) == RStrip(LStrip(s))

\* The regex class \w on a str pattern (Python 3, no re.ASCII flag):
\* Unicode letters and digits plus underscore ("v" comes from "-v", which
\* __main__.py takes as a project name).
IsWordChar(c) == c \in {"a", "v", "9", "_", "é"}

\* The rest of t after its leading run of non-word characters.
RECURSIVE SkipRun(_)
SkipRun(t) ==
    IF t # <<>> /\ ~IsWordChar(Head(t)) THEN SkipRun(Tail(t)) ELSE t

\* Variant: the pattern without the `+`, one "_" per character.
ReSub_each(s) ==
    [i \in 1..Len(s) |-> IF IsWordChar(s[i]) THEN s[i] ELSE "_"]

\* re.sub(r"[^\w]+", "_", s): scan left to right; each leftmost, greedy
\* match of one or more non-word characters is replaced by one "_".
RECURSIVE ReSub(_)
ReSub(s) ==
    IF s = <<>> THEN <<>>
    ELSE IF IsWordChar(Head(s)) THEN <<Head(s)>> \o ReSub(Tail(s))
    ELSE <<"_">> \o ReSub(SkipRun(Tail(s)))

---------------------------------------------------------------------------
(* Filesystem *)

T == "target_dir"                \* target_dir
P == "final_path"                \* Path(target_dir, project_name)
SETUP == "final_path/setup.py"
PKG == "final_path/python_dir"   \* Path(project_path, python_dir_name)
MARKER == "final_path/python_dir/__init__.py"
VENV == "final_path/.venv"
GITIGNORE == "final_path/.gitignore"
GIT == "final_path/.git"
OLD == "final_path/old"          \* an entry the workflow never names
OLDX == "final_path/old/x"
EXT == "elsewhere"               \* a directory outside target_dir
EXTDATA == "elsewhere/data"

Paths == {T, P, SETUP, PKG, MARKER, VENV, GITIGNORE, GIT, OLD, OLDX,
          EXT, EXTDATA}

Top == {SETUP, PKG, VENV, GITIGNORE, GIT, OLD}   \* direct entries of P

Parent(q) ==
    CASE q \in Top -> P
      [] q = P -> T
      [] q = MARKER -> PKG
      [] q = OLDX -> OLD
      [] q = EXTDATA -> EXT
      [] OTHER -> "/"

\* Every symlink to a directory points at EXT.
Kinds == {"absent", "file", "dir", "symlink_file", "symlink_dir",
          "symlink_dangling"}

\* Path.is_dir(), Path.is_file(), Path.is_symlink(): the first two follow
\* symlinks, the third does not.
is_dir(f, q) == f[q] \in {"dir", "symlink_dir"}
is_file(f, q) == f[q] \in {"file", "symlink_file"}
is_symlink(f, q) == f[q] \in {"symlink_file", "symlink_dir", "symlink_dangling"}

\* Path.iterdir(): the entries of the directory q resolves to.
iterdir(f, q) ==
    LET real == IF f[q] = "symlink_dir" THEN EXT ELSE q
    IN  { c \in Paths : Parent(c) = real /\ f[c] # "absent" }

\* Result of a filesystem call: the filesystem it leaves and the exception
\* it raised ("none" when it returned).
Outcome(f, err) == [fs |-> f, err |-> err]
Ok(o) == o.err = "none"

\* Variant: unlink returns without removing anything.
unlink_keeps(f, q) == Outcome(f, "none")

\* Path.unlink(): removes a file or a symlink of any kind.
unlink(f, q) == Outcome([f EXCEPT ![q] = "absent"], "none")

\* Path.rmdir(): removes an empty directory.  On a symlink to a directory
\* os.rmdir raises NotADirectoryError on Linux and removes the link on
\* Windows; on a non-empty directory it raises OSError.
rmdir(sys, f, q) ==
    IF f[q] = "symlink_dir"
    THEN IF sys = "Windows" THEN Outcome([f EXCEPT ![q] = "absent"], "none")
         ELSE Outcome(f, "NotADirectoryError")
    ELSE IF iterdir(f, q) # {} THEN Outcome(f, "OSError")
    ELSE Outcome([f EXCEPT ![q] = "absent"], "none")

\* _clean_dir(path, start): the set of outcomes over every order in which
\* iterdir can yield the entries; the walk stops at the first removal
\* that raises.
RECURSIVE _clean_dir(_, _, _, _)
RECURSIVE clean_entries(_, _, _, _)
_clean_dir(sys, f, path, start) ==
    IF is_dir(f, path)
    THEN { IF ~Ok(o) \/ path = start THEN o ELSE rmdir(sys, o.fs, path) :
             o \in clean_entries(sys, f, iterdir(f, path), start) }
    ELSE IF is_file(f, path) \/ is_symlink(f, path)
    THEN { unlink(f, path) }
    ELSE { Outcome(f, "none") }

clean_entries(sys, f, todo, start) ==
    IF todo = {} THEN { Outcome(f, "none") }
    ELSE UNION { UNION { IF Ok(o)
                         THEN clean_entries(sys, o.fs, todo \ {it}, start)
                         ELSE {o} :
                         o \in _clean_dir(sys, f, it, start) } :
                 it \in todo }

\* The filesystems a run can start from.
FsOf(t, p, s, k, m, v, o, x) ==
    [q \in Paths |->
        CASE q = T -> t [] q = P -> p [] q = SETUP -> s [] q = PKG -> k
          [] q = MARKER -> m [] q = VENV -> v [] q = OLD -> o [] q = OLDX -> x
          [] q = EXT -> "dir" [] q = EXTDATA -> "file"
          [] OTHER -> "absent"]

WellFormed(f) ==
    /\ \A q \in Paths \ {T, EXT} :
          f[q] # "absent" => f[Parent(q)] = "dir"
    /\ Cardinality({ q \in Top : f[q] # "absent" }) <= MaxPre

InitialFs ==
    { f \in { FsOf(c[1], c[2], c[3], c[4], c[5], c[6], c[7], c[8]) :
                c \in {"absent", "dir"} \X {"absent", "file", "dir"}
                      \X {"absent", "file", "dir"} \X {"absent", "file", "dir"}
                      \X {"absent", "file"} \X {"absent", "dir"}
                      \X Kinds \X {"absent", "file", "symlink_dir"} } :
      WellFormed(f) }

---------------------------------------------------------------------------
(* Filesystem calls that can raise *)

RECURSIVE Ancestors(_)
Ancestors(q) ==
    IF Parent(q) \in Paths THEN {Parent(q)} \cup Ancestors(Parent(q)) ELSE {}

\* Path.mkdir(parents=True), exist_ok left False: FileExistsError when the
\* path exists, NotADirectoryError when an ancestor is not a directory.
mkdir(f, q) ==
    IF f[q] # "absent" THEN Outcome(f, "FileExistsError")
    ELSE IF \E a \in Ancestors(q) : f[a] # "absent" /\ ~is_dir(f, a)
    THEN Outcome(f, "NotADirectoryError")
    ELSE Outcome([r \in Paths |->
                    IF r = q \/ (r \in Ancestors(q) /\ f[r] = "absent")
                    THEN "dir" ELSE f[r]], "none")

\* open(path, "w"): creates or truncates a regular file; IsADirectoryError
\* on a directory, FileNotFoundError when the parent is missing.
open_w(f, q) ==
    IF is_dir(f, q) THEN Outcome(f, "IsADirectoryError")
    ELSE IF ~is_dir(f, Parent(q)) THEN Outcome(f, "FileNotFoundError")
    ELSE IF f[q] = "absent" THEN Outcome([f EXCEPT ![q] = "file"], "none")
    ELSE Outcome(f, "none")

---------------------------------------------------------------------------
(* Decisions of the code, as operators *)

\* Parameters of create_python_project.
Parameters == {"project_name", "target_dir", "project_description",
               "project_author", "no_git"}

\* Arguments each front end passes (project_name positionally, the rest
\* by keyword): cli.py:87-94 and __main__.py:76-82.
KwargsCli == {"project_name", "target_dir", "project_description",
              "project_author", "no_git", "redirect_external_output"}

KwargsModule == {"project_name", "target_dir", "project_description",
                 "project_author", "no_git"}

Kwargs(e) == IF e = "cli" THEN KwargsCli ELSE KwargsModule

\* A call with a keyword the function does not declare raises TypeError
\* before the body runs.
CallBinds(e) == Kwargs(e) \subseteq Parameters

\* Variant: the emptiness test is dropped.
NeedsPrompt_any_dir(f) == is_dir(f, P)

\* The gate of create_python_project: prompt only for a non-empty directory.
NeedsPrompt(f) == is_dir(f, P) /\ iterdir(f, P) # {}

\* Variant: only the lower-case answers are accepted.
PromptAccepts_lower(d) == d \in {<<"y">>, <<"n">>}

\* `data in ("Y", "y", "n", "N")`: the loop condition of _prompt, negated.
PromptAccepts(d) == d \in {<<"Y">>, <<"y">>, <<"n">>, <<"N">>}

\* Variant: every accepted answer but "N" counts as a yes.
PromptReturn_not_N(d) == d \in {<<"Y">>, <<"y">>, <<"n">>}

\* `return data in ("Y", "y")`
PromptReturn(d) == d \in {<<"Y">>, <<"y">>}

\* Variant: the commands joined by `;`, the status is that of the last.
ChainExit_last(c1, c2, c3) == c3

\* Exit status of `a && b && c`: that of the first command that fails.
ChainExit(c1, c2, c3) == IF c1 # 0 THEN c1 ELSE IF c2 # 0 THEN c2 ELSE c3

\* Variant: the result of _install_local_environment is not tested.
AfterInstall_unchecked(code, ng) ==
    IF ~ng THEN "init_git" ELSE "return_true"

\* Variant: the no_git test is dropped.
AfterInstall_always_git(code, ng) ==
    IF code # 0 THEN "return_false" ELSE "init_git"

\* What create_python_project does once _install_local_environment
\* returned: creator.py:170-178.
AfterInstall(code, ng) ==
    IF code # 0 THEN "return_false"
    ELSE IF ~ng THEN "init_git"
    ELSE "return_true"

\* Output of `which git` / `where git` as subprocess.getoutput returns it
\* (stdout and stderr together): nothing, the executable(s) found, or the
\* tool's own "not found" diagnostic.
GitPath == "/usr/bin/git"
Diagnostic == "which: no git in (PATH)"
WhichOutputs == { <<>>, <<GitPath>>, <<GitPath, "/usr/local/bin/git">>,
                  <<Diagnostic>> }

\* _resolve_git: first line of the output, None when there is none.
_resolve_git(out) == IF Len(out) > 0 THEN out[1] ELSE "None"

\* Exit codes an external command can end with; the shell's own code for
\* a command it cannot find.
ExitCodes == {0, 1}
NotFoundCodes == {127}
GitCodes(exec) == IF exec = GitPath THEN ExitCodes ELSE NotFoundCodes

\* Exit code of the process, from how the call ended: "True", "False" or
\* "raised".
\* cli.py: 0 if the call returned a true value, 1 if it returned a false
\* one or raised.
ExitCodeCli(outcome) == IF outcome = "True" THEN 0 ELSE 1

\* __main__.py: exit(0) is called inside the try block; the SystemExit it
\* raises is caught by the bare except, which prints the error, and
\* exit(1) follows.  A false value or an exception ends in exit(1) too.
ExitCodeModule(outcome) ==
    CASE outcome = "True" -> 1
      [] outcome = "False" -> 1
      [] OTHER -> 1

ExitCode(e, outcome) ==
    IF e = "cli" THEN ExitCodeCli(outcome) ELSE ExitCodeModule(outcome)

---------------------------------------------------------------------------
(* The workflow *)

\* Options of the argument loop: cli.py:57-69, __main__.py:51-61.
OptH == <<"-", "h">>
OptD == <<"-", "d">>
OptA == <<"-", "a">>
OptN == <<"-", "n">>
OptV == <<"-", "v">>
HelpFlags == {OptH, <<"-", "-", "h", "e", "l", "p">>}
ValueFlags ==
    {OptD, OptA,
     <<"-", "-", "d", "e", "s", "c", "r", "i", "p", "t", "i", "o", "n">>,
     <<"-", "-", "a", "u", "t", "h", "o", "r">>}
NoGitFlags == {OptN, <<"-", "-", "n", "o", "-", "g", "i", "t">>}
\* __main__.py has no -v/--verbose branch: there the flag is a positional.
VerboseFlags(e) ==
    IF e = "cli"
    THEN {OptV, <<"-", "-", "v", "e", "r", "b", "o", "s", "e">>}
    ELSE {}

\* Command lines of the workflow specification: a project name, with or
\* without -n.
MainArgvs ==
    { <<nm>> : nm \in ArgNames } \cup { <<OptN, nm>> : nm \in ArgNames }

\* Command lines of the argument parsing specification.
ArgTokens == {OptH, OptD, OptN, OptV, <<"a">>}
AllArgvs == SeqsUpTo(ArgTokens, MaxArgs)

\* State of the argument loop; <<>> stands for None.
Parsed(end, name, dir, ng, vb) ==
    [end |-> end, name |-> name, dir |-> dir, no_git |-> ng, verbose |-> vb]

\* `while args:` of the front end e, from the locals in st.  end is "loop"
\* when the loop ran out of arguments, "help", "unknown" (third
\* positional) or "ValueError" (-d/-a as last argument: `arg, *args = args`
\* on an empty list).
RECURSIVE ArgLoop(_, _, _)
ArgLoop(e, args, st) ==
    IF args = <<>> THEN st
    ELSE LET arg == Head(args)
             rest == Tail(args)
         IN  IF arg \in HelpFlags THEN [st EXCEPT !.end = "help"]
             ELSE IF arg \in ValueFlags
             THEN IF rest = <<>> THEN [st EXCEPT !.end = "ValueError"]
                  ELSE ArgLoop(e, Tail(rest), st)
             ELSE IF arg \in NoGitFlags
             THEN ArgLoop(e, rest, [st EXCEPT !.no_git = TRUE])
             ELSE IF arg \in VerboseFlags(e)
             THEN ArgLoop(e, rest, [st EXCEPT !.verbose = TRUE])
             ELSE IF st.name = <<>>
             THEN ArgLoop(e, rest, [st EXCEPT !.name = arg])
             ELSE IF st.dir = <<>>
             THEN ArgLoop(e, rest, [st EXCEPT !.dir = arg])
             ELSE [st EXCEPT !.end = "unknown"]

\* How the front end goes on after its argument handling:
\*   "empty"          no argument at all: usage header and error, code 1
\*   "help"           usage on stdout, code 0
\*   "unknown"        usage header and error on stderr, code 1
\*   "ValueError"     uncaught, traceback on stderr, code 1
\*   "AssertionError" `assert project_name is not None` fails, uncaught
\*   "call"           the workflow is called
ParseEnd(e, args) ==
    LET st == ArgLoop(e, args, Parsed("loop", <<>>, <<>>, FALSE, FALSE))
    IN  IF args = <<>> THEN "empty"
        ELSE IF st.end # "loop" THEN st.end
        ELSE IF st.name = <<>> THEN "AssertionError"
        ELSE "call"

\* What the front end prints for each ending.
ParseOutput(end) ==
    CASE end \in {"empty", "unknown"} ->
             <<"stderr:usage_header", "stderr:error">>
      [] end = "help" -> <<"stdout:usage">>
      [] end \in {"ValueError", "AssertionError"} -> <<"stderr:traceback">>
      [] OTHER -> <<>>

\* Variant: help ends like the usage errors, with code 1.
ParseExitCode_always_one(end) == 1

\* Exit code when the front end ends before calling the workflow; an
\* uncaught exception ends the interpreter with code 1.
ParseExitCode(end) == IF end = "help" THEN 0 ELSE 1


Init ==
    /\ system \in {"Linux", "Windows"}
    /\ entry \in {"cli", "module"}
    /\ argv \in MainArgvs
    /\ verbose = FALSE
    /\ project_name = <<>>
    /\ no_git = FALSE
    /\ fs \in InitialFs
    /\ pc = "start"
    /\ raw = <<>>
    /\ data = <<>>
    /\ confirmed = "none"
    /\ errs = 0
    /\ python_dir_name = <<>>
    /\ env_code = -1
    /\ git_exec = "unset"
    /\ result = "none"
    /\ exit_code = -1
    /\ exc = "none"
    /\ log = <<>>

\* Argument handling of the front end: cli.py:43-82, __main__.py:38-74.
ParseArgs ==
    /\ pc = "start"
    /\ LET end == ParseEnd(entry, argv)
           st == ArgLoop(entry, argv, Parsed("loop", <<>>, <<>>, FALSE, FALSE))
       IN  /\ project_name' = st.name
           /\ no_git' = st.no_git
           /\ verbose' = st.verbose
           /\ log' = log \o ParseOutput(end)
           /\ exc' = IF end \in {"ValueError", "AssertionError"}
                     THEN end ELSE exc
           /\ IF end = "call"
              THEN pc' = "call" /\ exit_code' = exit_code
              ELSE pc' = "exited" /\ exit_code' = ParseExitCode(end)
    /\ UNCHANGED << system, entry, argv, fs, raw, data, confirmed, errs,
                    python_dir_name, env_code, git_exec, result >>

\* The front end calls create_python_project with its keyword arguments.
Call ==
    /\ pc = "call"
    /\ pc' = IF CallBinds(entry) THEN "gate" ELSE "raised"
    /\ exc' = IF CallBinds(entry) THEN "none" ELSE "TypeError"
    /\ UNCHANGED << argv, verbose, system, entry, project_name, no_git, fs,
                    raw, data, confirmed, errs, python_dir_name, env_code,
                    git_exec, result, exit_code, log >>

\* creator.py:157-168: existing directory (empty or not) or mkdir.
Gate ==
    /\ pc = "gate"
    /\ IF is_dir(fs, P)
       THEN /\ pc' = IF NeedsPrompt(fs) THEN "prompt_read" ELSE "setup"
            /\ UNCHANGED << fs, exc, log >>
       ELSE LET o == mkdir(fs, P)
            IN  /\ fs' = o.fs
                /\ exc' = o.err
                /\ pc' = IF Ok(o) THEN "setup" ELSE "raised"
                /\ log' = IF Ok(o) THEN Append(log, "mkdir") ELSE log
    /\ UNCHANGED << argv, verbose, system, entry, project_name, no_git, raw,
                    data, confirmed, errs, python_dir_name, env_code,
                    git_exec, result, exit_code >>

\* _prompt: data = input(...).strip().  The console answers with any
\* response (at most MaxInvalid invalid ones) or is at end of file, which
\* makes input() raise EOFError.
PromptRead ==
    /\ pc = "prompt_read"
    /\ \/ \E r \in Responses :
             /\ errs < MaxInvalid \/ PromptAccepts(Strip(r))
             /\ raw' = r
             /\ data' = Strip(r)
             /\ pc' = "prompt_test"
             /\ exc' = exc
       \/ /\ pc' = "raised"
          /\ exc' = "EOFError"
          /\ UNCHANGED << raw, data >>
    /\ log' = Append(log, "input")
    /\ UNCHANGED << argv, verbose, system, entry, project_name, no_git, fs,
                    confirmed, errs, python_dir_name, env_code, git_exec,
                    result, exit_code >>

\* _prompt: the while test, the error message, the return; and the use
\* create_python_project makes of the returned value.  `data` is dead
\* from here to the next input() or the end of _prompt, so it is cleared.
PromptTest ==
    /\ pc = "prompt_test"
    /\ IF ~PromptAccepts(data)
       THEN /\ errs' = errs + 1
            /\ log' = Append(log, "invalid_input")
            /\ pc' = "prompt_read"
            /\ raw' = <<>>
            /\ data' = <<>>
            /\ UNCHANGED confirmed
       ELSE /\ confirmed' = IF PromptReturn(data) THEN "True" ELSE "False"
            /\ pc' = IF PromptReturn(data) THEN "clean" ELSE "setup"
            /\ raw' = <<>>
            /\ data' = <<>>
            /\ UNCHANGED << errs, log >>
    /\ UNCHANGED << argv, verbose, exc, system, entry, project_name, no_git,
                    fs, python_dir_name, env_code, git_exec, result,
                    exit_code >>

\* Variant: the cleanup sits in a try block that passes on any error.
AfterClean_goes_on(o) == "setup"

\* creator.py:165-166: nothing catches what _clean_dir raises; when it
\* returns, materialization is next.
AfterClean(o) == IF Ok(o) THEN "setup" ELSE "raised"

\* _clean_dir(final_path, final_path)
Clean ==
    /\ pc = "clean"
    /\ \E o \in _clean_dir(system, fs, P, P) :
          /\ fs' = o.fs
          /\ exc' = o.err
          /\ pc' = AfterClean(o)
    /\ log' = Append(log, "clean")
    /\ UNCHANGED << argv, verbose, system, entry, project_name, no_git, raw,
                    data, confirmed, errs, python_dir_name, env_code,
                    git_exec, result, exit_code >>

\* _install_local_environment, creator.py:96-102: write setup.py.
WriteSetup ==
    /\ pc = "setup"
    /\ LET o == open_w(fs, SETUP)
       IN  /\ fs' = o.fs
           /\ exc' = o.err
           /\ pc' = IF Ok(o) THEN "mkpkg" ELSE "raised"
           /\ log' = IF Ok(o) THEN Append(log, "write_setup") ELSE log
    /\ UNCHANGED << argv, verbose, system, entry, project_name, no_git, raw,
                    data, confirmed, errs, python_dir_name, env_code,
                    git_exec, result, exit_code >>

\* creator.py:103-106: derive the package directory name and create it.
MakePythonDir ==
    /\ pc = "mkpkg"
    /\ python_dir_name' = ReSub(project_name)
    /\ LET o == mkdir(fs, PKG)
       IN  /\ fs' = o.fs
           /\ exc' = o.err
           /\ pc' = IF Ok(o) THEN "marker" ELSE "raised"
           /\ log' = IF Ok(o) THEN Append(log, "mkdir_pkg") ELSE log
    /\ UNCHANGED << argv, verbose, system, entry, project_name, no_git, raw,
                    data, confirmed, errs, env_code, git_exec, result,
                    exit_code >>

\* creator.py:107-109: the empty __init__.py.
WriteMarker ==
    /\ pc = "marker"
    /\ LET o == open_w(fs, MARKER)
       IN  /\ fs' = o.fs
           /\ exc' = o.err
           /\ pc' = IF Ok(o) THEN "venv" ELSE "raised"
           /\ log' = IF Ok(o) THEN Append(log, "write_marker") ELSE log
    /\ UNCHANGED << argv, verbose, system, entry, project_name, no_git, raw,
                    data, confirmed, errs, python_dir_name, env_code,
                    git_exec, result, exit_code >>

\* What a subprocess.call shows on the console: nothing when both streams
\* are pipes, the command's output otherwise.
ConsoleOutput(stdout, stderr) ==
    IF stdout = "PIPE" /\ stderr = "PIPE" THEN <<>>
    ELSE <<"external_output">>

\* Variant: the commands are joined with `;`, all three always run.
ChainRan_all(c1, c2) == <<"venv", "activate", "pip">>

\* Variant: a failed venv command is run a second time.
ChainRan_retry(c1, c2) ==
    IF c1 # 0 THEN <<"venv", "venv">>
    ELSE <<"venv", "activate">> \o (IF c2 = 0 THEN <<"pip">> ELSE <<>>)

\* Commands of the chain that the shell runs, given their exit codes.
ChainRan(c1, c2) ==
    <<"venv">> \o (IF c1 = 0 THEN <<"activate">> ELSE <<>>)
               \o (IF c1 = 0 /\ c2 = 0 THEN <<"pip">> ELSE <<>>)

\* creator.py:110-127 and 170-178: one shell runs
\* `python -m venv .venv && activate && pip install -e .`; then the
\* workflow returns False, goes on to git, or returns True.  A venv command
\* that fails may already have created .venv.
InstallEnvironment ==
    /\ pc = "venv"
    /\ \E c1 \in ExitCodes, c2 \in ExitCodes, c3 \in ExitCodes,
          partial \in BOOLEAN :
          LET code == ChainExit(c1, c2, c3)
              next == AfterInstall(code, no_git)
          IN  /\ c1 = 0 => (~partial)
              /\ c1 # 0 => (c2 = 0 /\ c3 = 0)
              /\ c2 # 0 => c3 = 0
              /\ fs' = IF c1 = 0 \/ partial
                       THEN [fs EXCEPT ![VENV] = "dir"] ELSE fs
              /\ env_code' = code
              /\ log' = log \o <<"env_chain">> \o ChainRan(c1, c2)
                            \o ConsoleOutput("PIPE", "PIPE")
              /\ pc' = IF next = "init_git" THEN "which" ELSE "returned"
              /\ result' = CASE next = "return_false" -> "False"
                             [] next = "return_true" -> "True"
                             [] OTHER -> result
    /\ UNCHANGED << argv, verbose, exc, system, entry, project_name, no_git,
                    raw, data, confirmed, errs, python_dir_name, git_exec,
                    exit_code >>

\* _init_git, creator.py:57-60: look the executable up.
ResolveGit ==
    /\ pc = "which"
    /\ \E out \in WhichOutputs :
          /\ git_exec' = _resolve_git(out)
          /\ IF _resolve_git(out) = "None"
             THEN pc' = "returned" /\ result' = "True"
             ELSE pc' = "gitinit" /\ result' = result
    /\ log' = Append(log, "which_git")
    /\ UNCHANGED << argv, verbose, exc, system, entry, project_name, no_git,
                    fs, raw, data, confirmed, errs, python_dir_name, env_code,
                    exit_code >>

\* Variant: the exit code of `git init` is not looked at.
InitFailed_ignored(code) == FALSE

\* creator.py:69: `if code != 0`, the init stops the stage.
InitFailed(code) == code # 0

\* creator.py:61-71: `"<git_exec>" init .`, which creates .git exactly
\* when it exits 0.
GitInit ==
    /\ pc = "gitinit"
    /\ \E code \in GitCodes(git_exec) :
          /\ fs' = IF code = 0 THEN [fs EXCEPT ![GIT] = "dir"] ELSE fs
          /\ IF InitFailed(code)
             THEN pc' = "returned" /\ result' = "True"
             ELSE pc' = "gitignore" /\ result' = result
    /\ log' = Append(log, "git_init") \o ConsoleOutput("PIPE", "PIPE")
    /\ UNCHANGED << argv, verbose, exc, system, entry, project_name, no_git,
                    raw, data, confirmed, errs, python_dir_name, env_code,
                    git_exec, exit_code >>

\* creator.py:72-74: write .gitignore.
WriteGitignore ==
    /\ pc = "gitignore"
    /\ LET o == open_w(fs, GITIGNORE)
       IN  /\ fs' = o.fs
           /\ exc' = o.err
           /\ pc' = IF Ok(o) THEN "commit" ELSE "raised"
           /\ log' = IF Ok(o) THEN Append(log, "write_gitignore") ELSE log
    /\ UNCHANGED << argv, verbose, system, entry, project_name, no_git, raw,
                    data, confirmed, errs, python_dir_name, env_code,
                    git_exec, result, exit_code >>

\* creator.py:75-87 and 177-178: add and commit; either way the workflow
\* returns True.
GitCommit ==
    /\ pc = "commit"
    /\ \E code \in GitCodes(git_exec) :
          /\ pc' = "returned"
          /\ result' = "True"
    /\ log' = Append(log, "git_commit") \o ConsoleOutput("PIPE", "PIPE")
    /\ UNCHANGED << argv, verbose, exc, system, entry, project_name, no_git,
                    fs, raw, data, confirmed, errs, python_dir_name, env_code,
                    git_exec, exit_code >>

\* The front end turns the outcome of the call into the exit code.
Exit ==
    /\ pc \in {"returned", "raised"}
    /\ exit_code' = ExitCode(entry, IF pc = "raised" THEN "raised"
                                    ELSE result)
    /\ pc' = "exited"
    /\ UNCHANGED << argv, verbose, exc, system, entry, project_name, no_git,
                    fs, raw, data, confirmed, errs, python_dir_name, env_code,
                    git_exec, result, log >>

Next ==
    \/ ParseArgs
    \/ Call
    \/ Gate
    \/ PromptRead
    \/ PromptTest
    \/ Clean
    \/ WriteSetup
    \/ MakePythonDir
    \/ WriteMarker
    \/ InstallEnvironment
    \/ ResolveGit
    \/ GitInit
    \/ WriteGitignore
    \/ GitCommit
    \/ Exit

Spec == Init /\ [][Next]_vars

---------------------------------------------------------------------------
(* Name derivation on its own: every project name up to MaxNameLen, taken  *)
(* at the point where setup.py has been written into a fresh directory.    *)

FreshProject ==
    [q \in Paths |->
        IF q \in {T, P, EXT} THEN "dir"
        ELSE IF q \in {SETUP, EXTDATA} THEN "file"
        ELSE "absent"]

InitName ==
    /\ system \in {"Linux", "Windows"}
    /\ entry = "module"
    /\ project_name \in AllNames
    /\ no_git \in BOOLEAN
    /\ argv = IF no_git THEN <<OptN, project_name>> ELSE <<project_name>>
    /\ verbose = FALSE
    /\ fs = FreshProject
    /\ pc = "mkpkg"
    /\ raw = <<>>
    /\ data = <<>>
    /\ confirmed = "none"
    /\ errs = 0
    /\ python_dir_name = <<>>
    /\ env_code = -1
    /\ git_exec = "unset"
    /\ result = "none"
    /\ exit_code = -1
    /\ exc = "none"
    /\ log = <<"mkdir", "write_setup">>

NextName ==
    \/ MakePythonDir
    \/ WriteMarker

SpecName == InitName /\ [][NextName]_vars

---------------------------------------------------------------------------
(* Argument parsing: every command line of up to MaxArgs arguments, over   *)
(* a target directory where ProjectPath is missing, a file, empty, or      *)
(* holds one old file.                                                     *)

ArgsFs ==
    { f \in InitialFs :
        /\ f[T] = "dir"
        /\ \A q \in Top \ {OLD} : f[q] = "absent"
        /\ f[OLD] \in {"absent", "file"} }

InitArgs ==
    /\ system \in {"Linux", "Windows"}
    /\ entry \in {"cli", "module"}
    /\ argv \in AllArgvs
    /\ verbose = FALSE
    /\ project_name = <<>>
    /\ no_git = FALSE
    /\ fs \in ArgsFs
    /\ pc = "start"
    /\ raw = <<>>
    /\ data = <<>>
    /\ confirmed = "none"
    /\ errs = 0
    /\ python_dir_name = <<>>
    /\ env_code = -1
    /\ git_exec = "unset"
    /\ result = "none"
    /\ exit_code = -1
    /\ exc = "none"
    /\ log = <<>>

SpecArgs == InitArgs /\ [][Next]_vars

---------------------------------------------------------------------------
(* Second run: the same command line again, over what a successful run    *)
(* left in ProjectPath (with or without a git repository, and with or     *)
(* without an old file that an earlier declined cleanup kept).            *)

LeftBySuccess ==
    { [q \in Paths |->
          CASE q \in {T, P, PKG, VENV, EXT} -> "dir"
            [] q \in {SETUP, MARKER, EXTDATA} -> "file"
            [] q = GIT -> (IF repo THEN "dir" ELSE "absent")
            [] q = GITIGNORE -> (IF repo THEN "file" ELSE "absent")
            [] q = OLD -> old
            [] OTHER -> "absent"] :
      repo \in BOOLEAN, old \in {"absent", "file"} }

InitRerun ==
    /\ system \in {"Linux", "Windows"}
    /\ entry \in {"cli", "module"}
    /\ argv \in MainArgvs
    /\ verbose = FALSE
    /\ project_name = <<>>
    /\ no_git = FALSE
    /\ fs \in LeftBySuccess
    /\ pc = "start"
    /\ raw = <<>>
    /\ data = <<>>
    /\ confirmed = "none"
    /\ errs = 0
    /\ python_dir_name = <<>>
    /\ env_code = -1
    /\ git_exec = "unset"
    /\ result = "none"
    /\ exit_code = -1
    /\ exc = "none"
    /\ log = <<>>

SpecRerun == InitRerun /\ [][Next]_vars

---------------------------------------------------------------------------
(* Properties *)

InLog(e) == \E i \in 1..Len(log) : log[i] = e

GitEvents == {"which_git", "git_init", "write_gitignore", "git_commit"}

NoGitActivity == \A e \in GitEvents : ~InLog(e)

Finished == pc \in {"returned", "exited"}

\* C1: whenever the chained environment-provisioning invocation has exited
\* non-zero, the workflow has returned False and nothing of the
\* version-control stage has happened or happens: no lookup, no git init,
\* no .gitignore, no commit, with or without no_git.
C1_ProvisioningFailureIsFatal ==
    (env_code # -1 /\ env_code # 0) =>
        /\ Finished
        /\ result = "False"
        /\ NoGitActivity
        /\ git_exec = "unset"
        /\ fs[GIT] = "absent"
        /\ fs[GITIGNORE] = "absent"

C1_Witness ==
    /\ env_code = 1
    /\ ~no_git
    /\ pc = "exited"
    /\ result = "False"

\* C3: with no_git set, no run looks git up, invokes it or writes
\* .gitignore, whether provisioning succeeds or fails, and the value the
\* workflow returns is the materialization result alone.
C3_NoGitSkipsVersionControl ==
    no_git =>
        /\ NoGitActivity
        /\ git_exec = "unset"
        /\ fs[GIT] = "absent"
        /\ fs[GITIGNORE] = "absent"
        /\ env_code # -1 => (Finished /\ result = IF env_code = 0 THEN "True"
                                                ELSE "False")

C3_Witness ==
    /\ no_git
    /\ pc = "returned"
    /\ result = "True"
    /\ InLog("pip")

\* C2: once materialization succeeded the workflow returns True however
\* the version-control stage ends, and when the git executable is not
\* located no git command is invoked and no .gitignore is written.
GitLocated == git_exec \in {GitPath, "/usr/local/bin/git"}
GitNotLocated == git_exec # "unset" /\ ~GitLocated

C2_BestEffortVersionControl ==
    /\ (env_code = 0 /\ Finished) => result = "True"
    /\ GitNotLocated =>
          /\ ~InLog("git_init")
          /\ ~InLog("git_commit")
          /\ ~InLog("write_gitignore")
          /\ fs[GITIGNORE] = "absent"

\* C4: the console script, given a valid project name, exits 0 exactly
\* when the workflow succeeded and 1 only when the workflow failed (it
\* returned False or one of its filesystem or console operations raised).
WorkflowErrors == {"FileExistsError", "NotADirectoryError",
                   "IsADirectoryError", "FileNotFoundError", "OSError",
                   "EOFError"}

C4_ExitCodeReflectsWorkflow ==
    (entry = "cli" /\ pc = "exited") =>
        /\ exit_code = 0 <=> result = "True"
        /\ exit_code = 1 => (result = "False" \/ exc \in WorkflowErrors)

\* C5: after an affirmative answer over a non-empty ProjectPath, whatever
\* it holds (files, symlinks, symlinks to directories, subdirectories), the
\* cleanup completes, ProjectPath is still a directory and it has no entry
\* when materialization starts writing.
C5_AffirmativeEmptiesProjectPath ==
    (confirmed = "True" /\ pc # "clean") =>
        /\ exc = "none"
        /\ fs[P] = "dir"
        /\ pc = "setup" =>
              { q \in Paths : Parent(q) = P /\ fs[q] # "absent" } = {}

\* A response with the whitespace before its first and after its last
\* non-blank character removed.
Trimmed(r) ==
    LET solid == { i \in 1..Len(r) : r[i] # Space }
    IN  IF solid = {} THEN <<>>
        ELSE SubSeq(r, CHOOSE i \in solid : \A j \in solid : i <= j,
                       CHOOSE i \in solid : \A j \in solid : j <= i)

YesAnswers == {<<"y">>, <<"Y">>}
NoAnswers == {<<"n">>, <<"N">>}

\* The generated name a pre-existing entry stands in the way of: setup.py
\* is a directory, or the package directory name is taken.
NameCollision ==
    \/ fs[SETUP] = "dir" /\ ~InLog("write_setup")
    \/ fs[PKG] # "absent" /\ ~InLog("mkdir_pkg")

\* C6: on a negative answer (n or N) over a non-empty ProjectPath nothing
\* is deleted, then or later in the run, the workflow goes on to
\* materialization, and materialization raises nothing unless a generated
\* name collides with an existing entry.
C6_DeclineKeepsEntriesAndProceeds ==
    /\ [][(pc = "prompt_test" /\ Trimmed(raw) \in NoAnswers) =>
              (fs' = fs /\ pc' = "setup" /\ exc' = "none")]_vars
    /\ [][confirmed = "False" =>
              \A q \in Paths : fs[q] # "absent" => fs'[q] = fs[q]]_vars
    /\ [](confirmed = "False" /\ exc # "none" => NameCollision)

C6_Witness ==
    /\ confirmed = "False"
    /\ pc = "venv"
    /\ fs[OLD] = "symlink_dir"
    /\ fs[SETUP] = "file"
    /\ fs[MARKER] = "file"
    /\ exc = "none"

\* C7: every response that, trimmed, is not one of y, Y, n, N gets exactly
\* one "Invalid input" message and a new prompt, never an exception; the
\* first valid response ends the loop with no message, the prompt returns
\* true iff that response is y or Y, and cleanup starts only then.
C7_PromptLoop ==
    /\ [][(pc = "prompt_test" /\ Trimmed(raw) \notin YesAnswers \cup NoAnswers)
              => (errs' = errs + 1 /\ pc' = "prompt_read" /\ exc' = "none"
                  /\ confirmed' = "none" /\ fs' = fs)]_vars
    /\ [][(pc = "prompt_test" /\ Trimmed(raw) \in YesAnswers \cup NoAnswers)
              => (errs' = errs /\ pc' # "prompt_read"
                  /\ (confirmed' = "True" <=>
                         Trimmed(raw) \in YesAnswers))]_vars
    /\ [][errs' # errs => pc = "prompt_test"]_vars
    /\ [][pc' = "clean" =>
              (pc = "prompt_test" /\ Trimmed(raw) \in YesAnswers)]_vars
    /\ [](Len(SelectSeq(log, LAMBDA e : e = "invalid_input")) = errs)

C7_Witness ==
    /\ errs = 2
    /\ confirmed = "True"
    /\ pc = "setup"
    /\ InLog("clean")

\* C8: the prompt is issued iff ProjectPath already is a directory with at
\* least one entry; a missing ProjectPath is created with its missing
\* ancestors and an empty one is left as it is, both without a prompt.
HasEntries == \E q \in Top : fs[q] # "absent"

C8_PromptOnlyWhenNonEmpty ==
    /\ [][pc = "gate" =>
            /\ pc' = "prompt_read" <=> (fs[P] = "dir" /\ HasEntries)
            /\ fs[P] = "absent" =>
                  /\ pc' = "setup"
                  /\ fs' = [fs EXCEPT ![P] = "dir", ![T] = "dir"]
            /\ (fs[P] = "dir" /\ ~HasEntries) => (pc' = "setup" /\ fs' = fs)
         ]_vars
    /\ [][(pc' = "prompt_read" /\ pc # "prompt_read") =>
              pc \in {"gate", "prompt_test"}]_vars
    /\ [](InLog("input") => (fs[P] = "dir" /\ ~InLog("mkdir")))

C8_Witness ==
    /\ pc = "setup"
    /\ log = <<"mkdir">>
    /\ fs[P] = "dir"
    /\ confirmed = "none"

\* C9 as stated: .venv exists after a run only if the chained invocation
\* exited zero; a run reported as a provisioning failure leaves none.
\* (Runs that declined the cleanup are left out: there .venv may be older
\* than the run.)
C9_VenvOnlyOnSuccess ==
    (env_code # -1 /\ env_code # 0 /\ confirmed # "False") =>
        fs[VENV] = "absent"

\* C9 amended: .venv exists after every run whose provisioning succeeded,
\* and it comes into existence only in the step that runs the chained
\* invocation; nothing but the confirmed cleanup removes it.
C9_VenvAfterSuccess ==
    /\ [](result = "True" => fs[VENV] = "dir")
    /\ [](env_code = 0 => fs[VENV] = "dir")
    /\ [][(fs[VENV] = "absent" /\ fs'[VENV] # "absent") => pc = "venv"]_vars
    /\ [][(fs[VENV] # "absent" /\ fs'[VENV] = "absent") => pc = "clean"]_vars

C9_Witness ==
    /\ pc = "returned"
    /\ result = "True"
    /\ env_code = 0
    /\ fs[VENV] = "dir"
    /\ InLog("pip")

\* Replacing every maximal run of characters outside W by one "_": the
\* positions that yield a character are those of W and the first of each
\* run; they keep their order.
Collapse(s, W) ==
    LET kept == { i \in 1..Len(s) : s[i] \in W \/ i = 1 \/ s[i - 1] \in W }
        rank(i) == Cardinality({ j \in kept : j <= i })
    IN  [n \in 1..Cardinality(kept) |->
            LET i == CHOOSE k \in kept : rank(k) = n
            IN  IF s[i] \in W THEN s[i] ELSE "_"]

AsciiWord == {"a", "9", "_"}          \* members of [A-Za-z0-9_]
UnicodeWord == AsciiWord \cup {"é"}   \* letters and digits of any script

Derived == pc \in {"marker", "venv"}

\* C10 as stated: the derived package directory name is the project name
\* with every maximal run of characters outside [A-Za-z0-9_] replaced by
\* one underscore, so it contains only characters of [A-Za-z0-9_].
C10_AsciiRunsCollapsed ==
    Derived =>
        /\ python_dir_name = Collapse(project_name, AsciiWord)
        /\ \A i \in 1..Len(python_dir_name) : python_dir_name[i] \in AsciiWord

\* C10 amended: the derived name is the project name with every maximal
\* run of characters that are not letters, digits (of any script) or
\* underscore replaced by one underscore; it contains only such word
\* characters, and only characters of [A-Za-z0-9_] when the project name
\* is ASCII.
C10_WordRunsCollapsed ==
    Derived =>
        /\ python_dir_name = Collapse(project_name, UnicodeWord)
        /\ \A i \in 1..Len(python_dir_name) :
              python_dir_name[i] \in UnicodeWord
        /\ (\A i \in 1..Len(project_name) : project_name[i] # "é") =>
              python_dir_name = Collapse(project_name, AsciiWord)

C10_Witness ==
    /\ pc = "marker"
    /\ project_name = <<"a", "-", Space>>
    /\ python_dir_name = <<"a", "_">>

---------------------------------------------------------------------------
(* Command line *)

ExternalEvents == {"env_chain", "git_init", "git_commit"}

\* C11: output of the external commands is not shown without -v; with
\* -v/--verbose the setting reaches the workflow (the call is accepted and
\* the workflow runs) and the output of every external command is shown.
C11_VerboseSurfacesOutput ==
    /\ ~verbose => ~InLog("external_output")
    /\ (verbose /\ pc \notin {"start", "call"}
          /\ ParseEnd(entry, argv) = "call") => exc # "TypeError"
    /\ (verbose /\ \E e \in ExternalEvents : InLog(e)) =>
          InLog("external_output")

\* The loop ended without a project name, or met a third positional.
BadArguments ==
    ParseEnd(entry, argv) \in {"empty", "unknown", "AssertionError"}

\* C12: a command line without a project name (flags only included) or
\* with a third positional gets the usage header and an error message on
\* stderr and exit code 1, and nothing else happens.
C12_BadArgumentsReported ==
    (pc # "start" /\ BadArguments) =>
        /\ pc = "exited"
        /\ exit_code = 1
        /\ log = <<"stderr:usage_header", "stderr:error">>

HasHelp == \E i \in DOMAIN argv : argv[i] \in HelpFlags

HelpDone == pc = "exited" /\ exit_code = 0 /\ log = <<"stdout:usage">>

\* C13 as stated: a help flag anywhere among the arguments gives the usage
\* text, exit code 0 and nothing else.
C13_HelpAnywhere == (pc # "start" /\ HasHelp) => HelpDone

\* Argument i is the value of a -d/-a option right before it.
RECURSIVE IsValue(_, _)
IsValue(args, i) ==
    i > 1 /\ args[i - 1] \in ValueFlags /\ ~IsValue(args, i - 1)

\* Positional arguments before argument i.
PositionalsBefore(e, args, i) ==
    { j \in 1..(i - 1) :
        /\ ~IsValue(args, j)
        /\ args[j] \notin HelpFlags \cup ValueFlags \cup NoGitFlags
                          \cup VerboseFlags(e) }

\* Some help flag is met by the loop as an option: it is not the value of
\* -d/-a and at most two positionals come before it.
HelpReached ==
    \E i \in DOMAIN argv :
        /\ argv[i] \in HelpFlags
        /\ ~IsValue(argv, i)
        /\ Cardinality(PositionalsBefore(entry, argv, i)) <= 2

\* C13: when the loop meets -h/--help as an option, the front end prints
\* the usage text on stdout, exits with code 0 and does nothing else,
\* whatever the other arguments are.
C13_HelpReachedExitsZero == (pc # "start" /\ HelpReached) => HelpDone

C13_Witness ==
    /\ HelpDone
    /\ Len(argv) = 3
    /\ argv[1] = OptD
    /\ argv[2] = OptH
    /\ argv[3] = OptH

---------------------------------------------------------------------------
(* Version-control stage *)

\* State of the version-control stage, read off the control point and the
\* commands run so far.
GitStage ==
    CASE pc = "gitinit" -> "ToolResolved"
      [] pc = "gitignore" -> "RepoInitialized"
      [] pc = "commit" -> "IgnoreWritten"
      [] InLog("git_commit") -> "CommitEnded"
      [] InLog("git_init") /\ pc = "raised" -> "IgnoreFailed"
      [] InLog("git_init") -> "RepoInitFailed"
      [] InLog("which_git") -> "ToolUnavailable"
      [] OTHER -> "NotStarted"

GitTerminal == {"ToolUnavailable", "RepoInitFailed", "CommitEnded"}

\* C14: the version-control stage only moves NotStarted -> ToolResolved or
\* ToolUnavailable, ToolResolved -> RepoInitialized or RepoInitFailed,
\* RepoInitialized -> IgnoreWritten, IgnoreWritten -> Committed or
\* CommitFailed; .gitignore is written only after `git init` exited 0
\* (.git, absent before the run, is there), the commit is attempted only
\* after .gitignore was written, and nothing leaves a terminal state.
C14_GitStageTransitions ==
    /\ [][GitStage' # GitStage =>
            \/ GitStage = "NotStarted"
                 /\ GitStage' \in {"ToolResolved", "ToolUnavailable"}
            \/ GitStage = "ToolResolved"
                 /\ GitStage' \in {"RepoInitialized", "RepoInitFailed"}
            \/ GitStage = "RepoInitialized" /\ GitStage' = "IgnoreWritten"
            \/ GitStage = "IgnoreWritten" /\ GitStage' = "CommitEnded"]_vars
    /\ [][(GitStage \in GitTerminal) => (GitStage' = GitStage)]_vars
    /\ [](InLog("write_gitignore") => fs[GIT] = "dir")
    /\ [](InLog("git_commit") => InLog("write_gitignore"))

C14_Witness ==
    /\ GitStage = "CommitEnded"
    /\ fs[GITIGNORE] = "file"
    /\ pc = "exited"

---------------------------------------------------------------------------
(* Materialization *)

ArtifactEvents == {"write_setup", "mkdir_pkg", "write_marker",
                   "write_gitignore"}

\* The step creates a generated artifact.
ArtifactWritten ==
    /\ Len(log') = Len(log) + 1
    /\ log'[Len(log')] \in ArtifactEvents

\* C15 as stated: every artifact is created while ProjectPath is a
\* directory, and the first one (setup.py) while it has no entry.
C15_ArtifactsIntoEmptyPath ==
    [][ArtifactWritten =>
          /\ fs[P] = "dir"
          /\ pc = "setup" => iterdir(fs, P) = {}]_vars

\* C15: every artifact is created while ProjectPath is a directory, and
\* setup.py, the first one, while ProjectPath has no entry unless the
\* cleanup prompt was answered n.
C15_ArtifactsIntoExistingPath ==
    [][ArtifactWritten =>
          /\ fs[P] = "dir"
          /\ pc = "setup" => (iterdir(fs, P) = {} \/ confirmed = "False")]_vars

C15_Witness ==
    /\ confirmed = "True"
    /\ InLog("clean")
    /\ InLog("write_marker")
    /\ fs[OLD] = "absent"

\* Steps of _install_local_environment, in the order of the code.
MaterializerOrder == <<"write_setup", "mkdir_pkg", "write_marker",
                       "env_chain", "venv", "activate", "pip">>

IsMaterializerEvent(e) == \E i \in DOMAIN MaterializerOrder :
                             MaterializerOrder[i] = e

MaterializerLog == SelectSeq(log, IsMaterializerEvent)

\* C16: the materializer's steps happen in the order setup.py, package
\* directory, __init__.py, chained invocation (venv, activation, editable
\* install): what has been done so far is always an initial part of that
\* list; the install has run only with a .venv in place; and after a step
\* has raised nothing more is done.
C16_MaterializerOrder ==
    /\ [](/\ Len(MaterializerLog) <= Len(MaterializerOrder)
          /\ MaterializerLog =
                SubSeq(MaterializerOrder, 1, Len(MaterializerLog)))
    /\ [](InLog("pip") => fs[VENV] = "dir")
    /\ [][pc = "raised" => (log' = log /\ fs' = fs)]_vars

C16_Witness ==
    /\ InLog("pip")
    /\ Len(MaterializerLog) = Len(MaterializerOrder)
    /\ pc = "exited"

ExternalCommands == {"env_chain", "venv", "activate", "pip", "which_git",
                     "git_init", "git_commit"}

Count(e) == Cardinality({ i \in DOMAIN log : log[i] = e })

\* Position of the first e in the log, 0 when there is none.
IndexOf(e) ==
    IF InLog(e) THEN CHOOSE i \in DOMAIN log :
                        log[i] = e /\ \A j \in 1..(i - 1) : log[j] # e
    ELSE 0

\* The run has gone past the last step of materialization.
ChainReached == InLog("write_marker") /\ pc # "venv"

\* C17: no external command is run twice in a run; the chain is run
\* exactly once in every run that gets to it; the git lookup, `git init`
\* and the add/commit come in that order, each after the chain.
C17_NoRetries ==
    /\ \A e \in ExternalCommands : Count(e) <= 1
    /\ ChainReached => Count("env_chain") = 1
    /\ InLog("which_git") => IndexOf("env_chain") < IndexOf("which_git")
    /\ InLog("git_init") => IndexOf("which_git") < IndexOf("git_init")
    /\ InLog("git_commit") => IndexOf("git_init") < IndexOf("git_commit")

C17_Witness ==
    /\ pc = "exited"
    /\ env_code = 0
    /\ Count("env_chain") = 1
    /\ Count("git_commit") = 1

---------------------------------------------------------------------------
(* Cleanup *)

CleanupErrors == {"NotADirectoryError", "OSError"}

\* The cleanup was run and one of its removals raised.
CleanupFailed ==
    InLog("clean") /\ exc \in CleanupErrors /\ ~InLog("write_setup")

\* C18: when a removal fails during the cleanup the exception leaves the
\* workflow: no artifact is written and no external command is run, the
\* filesystem stays as the failed cleanup left it, and the process exits
\* with code 1.
C18_CleanupFailureAborts ==
    /\ [](CleanupFailed =>
            /\ pc \in {"raised", "exited"}
            /\ log[Len(log)] = "clean"
            /\ pc = "exited" => exit_code = 1)
    /\ [][pc = "clean" /\ exc' # "none" => pc' = "raised"]_vars
    /\ [][CleanupFailed => fs' = fs]_vars

C18_Witness ==
    /\ CleanupFailed
    /\ pc = "exited"
    /\ exit_code = 1
    /\ fs[EXTDATA] = "absent"

\* C19: a second run over the ProjectPath an earlier successful run left,
\* with the cleanup prompt declined, completes successfully and leaves
\* setup.py, the package directory and __init__.py in place.
C19_RerunSucceeds ==
    (confirmed = "False" /\ pc = "exited") =>
        /\ result = "True"
        /\ exc = "none"
        /\ fs[SETUP] = "file"
        /\ fs[PKG] = "dir"
        /\ fs[MARKER] = "file"

\* C20: the cleanup removes nothing outside the subtree of ProjectPath,
\* symlinks to outside directories included, and never removes
\* ProjectPath itself.
C20_CleanupStaysInside ==
    [][pc = "clean" =>
          /\ fs'[P] = "dir"
          /\ \A q \in {T, EXT, EXTDATA} : fs'[q] = fs[q]]_vars

====
